---- MODULE Spec2Model ----
(***************************************************************************)
(* Model of torch/_inductor/autotune_process.py: the pool of benchmarking  *)
(* sub-processes (TuningProcess, TuningProcessPool).                        *)
(*                                                                         *)
(* Threads of the parent: thread 0 is the caller (pool initialize,         *)
(* benchmark, terminate); threads 1..MaxDevices are the helper threads of  *)
(* the ThreadPoolExecutor, each running TuningProcessPool.target.          *)
(* A worker's child process and the two multiprocessing queues created     *)
(* with it carry the number of the worker.  A child that no worker refers  *)
(* to any more (its worker was cleared, or replaced by a new object) is not *)
(* followed further.  Time is in tenths of a second.                       *)
(***************************************************************************)
EXTENDS Integers, Sequences, FiniteSets, TLC

\* ---------------------------------------------------------------- bounds
MaxDevices == 2
MaxItems == 2
\* the longest input_tensor_meta of a BenchmarkRequest
MaxMeta == 4
\* the calls of benchmark() on one request
MaxCalls == 2

\* ------------------------------------------------------------- constants
\* float("inf"), the value target() returns for a failed choice
Inf == 1000000
\* the polling slice of get(): response_queue.get(timeout=0.5)
Slice == 5
\* get() polls in slices while remaining_timeout >= 1.0
SliceFloor == 10

None == 0 - 1
Absent == <<None>>
\* a future that holds an exception instead of a result
Raised == 0 - 2

Threads == 0 .. MaxDevices
Helpers == 1 .. MaxDevices
Workers == 1 .. MaxDevices
Items == 1 .. MaxItems

\* config.max_autotune_subproc_result_timeout_seconds, as the caller may set it
ResultTimeouts == {3, 17}

\* CUDA_VISIBLE_DEVICES as the operator may have set it: not at all, the list of
\* the first n device indices, or the one index of a device further up
EnvValues ==
    {Absent} \cup {[i \in 1 .. n |-> i - 1] : n \in 1 .. MaxDevices}
             \cup {<<MaxDevices + 1>>}

\* the value the benchmark() of choice i measures
Value(i) == 10 * i

\* wire messages
Ping == [type |-> "Ping", val |-> 0]
Pong == [type |-> "Pong", val |-> 0]
Sentinel == [type |-> "None", val |-> 0]
Request(i) == [type |-> "BenchmarkRequest", val |-> i]
Float(v) == [type |-> "float", val |-> v]
NoRes == [type |-> "unset", val |-> 0]
\* an object that is neither None, a Ping nor a BenchmarkRequest
Unknown(i) == [type |-> "object", val |-> i]

\* exit codes of a child: the process has returned from process_main, or a
\* signal has ended it
ExitReturned == 0
ExitSignalled == 0 - 9

VARIABLES
    worker,       \* TuningProcess objects: device, process, request_queue, response_queue
    child,        \* OS child processes, by worker
    reqQ,         \* request queues, by worker
    respQ,        \* response queues, by worker
    environ,      \* os.environ[CUDA_VISIBLE_DEVICES] of the parent, or Absent
    processes,    \* TuningProcessPool.processes: None-marker or the queue of idle workers
    executor,     \* TuningProcessPool.executor: None or max_workers
    work,         \* work queue of the executor (submitted, not yet started choices)
    future,       \* per choice: the state of its future
    results,      \* the mapping benchmark() last returned
    th,           \* per thread: program counter and locals
    cfg,          \* configuration and platform: multi-device flag, device count,
                  \* result timeout, CUDA_VISIBLE_DEVICES at the start, and the
                  \* choice (0: none) whose bmreq is not a BenchmarkRequest
    EXIT_HANDLER_REGISTERED,
    atexit,       \* the callbacks registered with atexit.register, in order
    bm,           \* a CUDABenchmarkRequest and its benchmark(): the names of
                  \* input_tensor_meta, unique_input_tensor_meta, DLL, the
                  \* locals of benchmark() and make_run_fn(), the states
                  \* self.DLL was in when the kernel was taken from it, and
                  \* the number of calls of benchmark()
    hist          \* observations used by the properties only

vars == <<worker, child, reqQ, respQ, environ, processes, executor, work, future,
          results, th, cfg, EXIT_HANDLER_REGISTERED, atexit, bm, hist>>

\* ------------------------------------------------------------ TuningProcess
\* TuningProcess.valid
valid(wr) ==
    /\ wr.process # None
    /\ wr.request_queue # None
    /\ wr.response_queue # None

\* for comparison: a clear() that keeps the response queue
clear_keeps_queue(wr) == [wr EXCEPT !.process = None, !.request_queue = None]

\* for comparison: a clear() that resets the device with the rest
clear_resets_device(wr) ==
    [wr EXCEPT !.device = None, !.process = None, !.request_queue = None,
               !.response_queue = None]

\* TuningProcess.clear
clear(wr) ==
    [wr EXCEPT !.process = None, !.request_queue = None, !.response_queue = None]

\* TuningProcess(device=device): a new, uninitialized object
NewTuningProcess(device) ==
    [device |-> device, process |-> None, request_queue |-> None, response_queue |-> None]

\* BaseProcess.is_alive() as the parent observes it
is_alive(p) == child[p].status = "alive"

NoChild ==
    [status |-> "none", busy |-> 0, sig |-> "none", env |-> Absent, exitcode |-> None]

\* the process has ended with exit code code
Exited(c, code) == [c EXCEPT !.status = "exited", !.busy = 0, !.exitcode = code]

\* a child the parent has reaped (join, is_alive and exitcode all poll) while
\* clearing its worker, or one whose worker was cleared after SIGKILL
Forget(ch, p) == [ch EXCEPT ![p] = NoChild]

\* a queue is gone once the worker that held it has dropped it
Drop(q, p) == [q EXCEPT ![p] = <<>>]

\* the child of worker p has been reaped and the worker cleared
Collect(p) ==
    /\ child' = Forget(child, p)
    /\ reqQ' = Drop(reqQ, p)
    /\ respQ' = Drop(respQ, p)

\* ------------------------------------------------------------------- Init
\* the locals of a thread; waited is the sum of the timeouts of the waits on
\* the response queue that the get() of the thread has made, status the exit
\* code get() has read after queue.Empty
IdleThread ==
    [pc |-> "idle", w |-> 0, obj |-> NoRes, remaining |-> None, res |-> NoRes,
     current |-> Absent, k |-> 0, started |-> FALSE, devs |-> <<>>, exc |-> "none",
     waited |-> 0, status |-> None]

NoFutures == [i \in Items |-> None]

\* klog: the steps of the kill() a thread runs; left: the state of the child at
\* the return of that kill(); replied: the choices whose response reached the
\* response queue while get() was waiting for it; why: how each worker was last
\* cleared, or that put() has spawned a new child after a crash; n: the size of
\* the batch; pings, pongs: the Ping objects put to, and the Pong objects got
\* from, each worker by pool initialize()
NoHist ==
    [klog |-> [t \in Threads |-> <<>>],
     left |-> [t \in Threads |-> "none"],
     replied |-> {},
     why |-> [w \in Workers |-> "none"],
     n |-> 0,
     pings |-> [w \in Workers |-> 0],
     pongs |-> [w \in Workers |-> 0]]

InitWith(counts) ==
    /\ worker = [w \in Workers |-> NewTuningProcess(None)]
    /\ child = [p \in Workers |-> NoChild]
    /\ reqQ = [p \in Workers |-> <<>>]
    /\ respQ = [p \in Workers |-> <<>>]
    /\ environ \in EnvValues
    /\ processes = <<None>>
    /\ executor = None
    /\ work = <<>>
    /\ future = NoFutures
    /\ results = <<>>
    /\ th = [t \in Threads |-> IdleThread]
    /\ cfg \in [multi : BOOLEAN, count : counts, result_timeout : ResultTimeouts,
                 env : {environ}, unknown : 0 .. MaxItems]
    /\ EXIT_HANDLER_REGISTERED = FALSE
    /\ atexit = <<>>
    /\ hist = NoHist

\* no BenchmarkRequest is looked into
NoRequest == [pc |-> "none", input_tensor_meta |-> <<>>, input_tensors |-> <<>>,
              output_tensor |-> None, args |-> <<>>,
              unique_input_tensor_meta |-> <<>>, DLL |-> "None",
              workspace_size_updated |-> FALSE, ptrs |-> <<>>, used |-> {},
              calls |-> 0]

\* a machine with at most one device
Init == InitWith({0, 1}) /\ bm = NoRequest

\* multi-device mode on a machine with MaxDevices devices, or with none
InitMulti == InitWith({0, MaxDevices}) /\ cfg.multi /\ bm = NoRequest

\* ------------------------------------------------------ the child process
\* for comparison: a work loop that reads on after the sentinel
OnSentinelGoesOn == "alive"

\* "if obj is None: break": the loop, and with it the process, ends
OnSentinel == "exited"

\* TuningProcess.workloop: one request_queue.get() and the branch taken on it.
\* The sentinel ends the loop and the process; an unknown object raises, which
\* process_main catches and logs, and the process ends as after a return.
workloop(p) ==
    /\ child[p].status = "alive"
    /\ child[p].busy = 0
    /\ reqQ[p] # <<>>
    /\ LET obj == Head(reqQ[p]) IN
        /\ reqQ' = [reqQ EXCEPT ![p] = Tail(@)]
        /\ IF obj.type = "None"
           THEN /\ child' = [child EXCEPT ![p].status = OnSentinel,
                                           ![p].exitcode = ExitReturned]
                /\ UNCHANGED respQ
           ELSE IF obj.type = "Ping"
           THEN /\ respQ' = [respQ EXCEPT ![p] = Append(@, Pong)]
                /\ UNCHANGED child
           ELSE IF obj.type = "BenchmarkRequest"
           THEN /\ child' = [child EXCEPT ![p].busy = obj.val]
                /\ UNCHANGED respQ
           ELSE /\ child' = [child EXCEPT ![p] = Exited(@, ExitReturned)]
                /\ UNCHANGED respQ
    /\ UNCHANGED <<worker, environ, processes, executor, work, future, results,
                   th, cfg, bm, EXIT_HANDLER_REGISTERED, atexit, hist>>

\* obj.benchmark() returns and the loop puts the value on the response queue.
\* A benchmark that hangs is one for which neither this step nor the next is
\* ever taken.
benchmark_returns(p) ==
    /\ child[p].status = "alive"
    /\ child[p].busy # 0
    /\ respQ' = [respQ EXCEPT ![p] = Append(@, Float(Value(child[p].busy)))]
    /\ child' = [child EXCEPT ![p].busy = 0]
    /\ hist' = IF \E t \in Helpers : th[t].w = p /\ th[t].pc = "get"
                                      /\ th[t].obj = Request(child[p].busy)
               THEN [hist EXCEPT !.replied = @ \cup {child[p].busy}]
               ELSE hist
    /\ UNCHANGED <<worker, reqQ, environ, processes, executor, work, future, results,
                   th, cfg, bm, EXIT_HANDLER_REGISTERED, atexit>>

\* obj.benchmark() raises: workloop propagates, process_main catches and logs,
\* the process ends without a reply, as after a return
benchmark_raises(p) ==
    /\ child[p].status = "alive"
    /\ child[p].busy # 0
    /\ child' = [child EXCEPT ![p] = Exited(@, ExitReturned)]
    /\ UNCHANGED <<worker, reqQ, respQ, environ, processes, executor, work, future,
                   results, th, cfg, bm, EXIT_HANDLER_REGISTERED, atexit, hist>>

\* the child is ended from outside (the kernel crashes the process, a kill)
ChildCrash(p) ==
    /\ child[p].status = "alive"
    /\ child[p].sig = "none"
    /\ child' = [child EXCEPT ![p] = Exited(@, ExitSignalled)]
    /\ UNCHANGED <<worker, reqQ, respQ, environ, processes, executor, work, future,
                   results, th, cfg, bm, EXIT_HANDLER_REGISTERED, atexit, hist>>

\* a signal the parent sent ends the child; SIGTERM may never do so for a child
\* that hangs (this step is then simply not taken)
SignalDelivered(p) ==
    /\ child[p].status = "alive"
    /\ child[p].sig # "none"
    /\ child' = [child EXCEPT ![p] = Exited(@, ExitSignalled)]
    /\ UNCHANGED <<worker, reqQ, respQ, environ, processes, executor, work, future,
                   results, th, cfg, bm, EXIT_HANDLER_REGISTERED, atexit, hist>>

\* ------------------------------------------- TuningProcess.put / initialize
\* the worker a thread operates on, and its fields
W(t) == worker[th[t].w]
Proc(t) == W(t).process

\* request_queue.put(obj)
QueuePut(q, slot, obj) == [q EXCEPT ![slot] = Append(@, obj)]

\* what the caller of put() does next: pool initialize() puts the worker into the
\* idle queue and turns to the next device; target() calls get() with the
\* configured result timeout
AfterPut(t) ==
    IF t = 0
    THEN /\ processes' = Append(processes, th[t].w)
         /\ th' = [th EXCEPT ![t].pc = "init_loop", ![t].k = @ + 1, ![t].w = 0]
    ELSE /\ th' = [th EXCEPT ![t].pc = "get", ![t].remaining = cfg.result_timeout]
         /\ UNCHANGED processes

\* the observations after request_queue.put(obj)
Sent(t) ==
    IF th[t].obj = Ping THEN [hist EXCEPT !.pings[th[t].w] = @ + 1] ELSE hist

\* for comparison: an initialize() without the test of valid()
InitializeReturnsNever(wr) == FALSE

\* "if self.valid(): return", the first statement of initialize()
InitializeReturns(wr) == valid(wr)

\* put(): initialize() returns at once on a valid worker; request_queue.put(obj)
PutValid(t) ==
    /\ th[t].pc = "put"
    /\ InitializeReturns(W(t))
    /\ reqQ' = QueuePut(reqQ, W(t).request_queue, th[t].obj)
    /\ AfterPut(t)
    /\ hist' = Sent(t)
    /\ UNCHANGED <<worker, child, respQ, environ, executor, work, future, results,
                   cfg, bm, EXIT_HANDLER_REGISTERED, atexit>>

\* initialize() on a worker that is not valid: two new queues and a Process
\* object; set_cuda_visible_device reads the current value of the variable
PutSpawn(t) ==
    /\ th[t].pc = "put"
    /\ ~InitializeReturns(W(t))
    /\ LET p == th[t].w IN
        /\ worker' = [worker EXCEPT ![p].process = p,
                                    ![p].request_queue = p,
                                    ![p].response_queue = p]
        /\ child' = [child EXCEPT ![p] = [NoChild EXCEPT !.status = "unstarted"]]
        /\ reqQ' = [reqQ EXCEPT ![p] = <<>>]
        /\ respQ' = [respQ EXCEPT ![p] = <<>>]
    /\ th' = [th EXCEPT ![t].pc = IF W(t).device = None THEN "start" ELSE "setenv",
                        ![t].current = IF W(t).device = None THEN Absent ELSE environ]
    /\ hist' = [hist EXCEPT !.why[th[t].w] = IF @ = "crash" THEN "respawned" ELSE "none"]
    /\ UNCHANGED <<environ, processes, executor, work, future, results, cfg, bm,
                   EXIT_HANDLER_REGISTERED, atexit>>

\* os.environ[CUDA_VISIBLE_DEVICES] = str(device)
SetEnv(t) ==
    /\ th[t].pc = "setenv"
    /\ environ' = <<W(t).device>>
    /\ th' = [th EXCEPT ![t].pc = "start"]
    /\ UNCHANGED <<worker, child, reqQ, respQ, processes, executor, work, future,
                   results, cfg, bm, EXIT_HANDLER_REGISTERED, atexit, hist>>

\* self.process.start(): the child begins with the parent's environment of now
StartOk(t) ==
    /\ th[t].pc = "start"
    /\ child' = [child EXCEPT ![Proc(t)].status = "alive", ![Proc(t)].env = environ]
    /\ th' = [th EXCEPT ![t].pc = "exitctx", ![t].started = TRUE]
    /\ UNCHANGED <<worker, reqQ, respQ, environ, processes, executor, work, future,
                   results, cfg, bm, EXIT_HANDLER_REGISTERED, atexit, hist>>

\* self.process.start() raises (the system cannot create the process)
StartFail(t) ==
    /\ th[t].pc = "start"
    /\ th' = [th EXCEPT ![t].pc = "exitctx", ![t].started = FALSE]
    /\ UNCHANGED <<worker, child, reqQ, respQ, environ, processes, executor, work,
                   future, results, cfg, bm, EXIT_HANDLER_REGISTERED, atexit, hist>>

\* the finally of set_cuda_visible_device; del raises KeyError when the variable
\* is not there any more
RestoreRaises(t) == W(t).device # None /\ th[t].current = Absent /\ environ = Absent

\* for comparison: a context manager without the finally
RestoredLeft(t) == environ

\* the value of the variable after the finally of set_cuda_visible_device
Restored(t) ==
    IF W(t).device = None THEN environ
    ELSE th[t].current

\* what a thread is left with when an exception leaves its call: a helper thread
\* stores it in the future of its choice, the caller sees it
Raise(t) ==
    /\ th' = [th EXCEPT ![t] = IdleThread]
    /\ IF t = 0 THEN UNCHANGED future
       ELSE future' = [future EXCEPT ![th[t].obj.val] = Raised]

\* the with block of initialize() ends; initialize() returns into put(), which
\* does request_queue.put(obj), or the exception of start() or del goes on
ExitCtx(t) ==
    /\ th[t].pc = "exitctx"
    /\ environ' = Restored(t)
    /\ IF th[t].started /\ ~RestoreRaises(t)
       THEN /\ reqQ' = QueuePut(reqQ, W(t).request_queue, th[t].obj)
            /\ AfterPut(t)
            /\ hist' = Sent(t)
            /\ UNCHANGED future
       ELSE /\ Raise(t)
            /\ UNCHANGED <<reqQ, processes, hist>>
    /\ UNCHANGED <<worker, child, respQ, executor, work, results, cfg, bm,
                   EXIT_HANDLER_REGISTERED, atexit>>

\* ------------------------------------------------------- TuningProcess.get
\* the condition of the polling loop
Polling(t) == th[t].remaining # None /\ th[t].remaining >= SliceFloor

RespQ(t) == respQ[W(t).response_queue]

\* for comparison: a polling loop that forgets to count the slice down
SliceStepStuck(r) == r

\* remaining_timeout -= 0.5
SliceStep(r) == r - Slice

\* for comparison: an except branch that leaves the worker of a dead child as it is
CrashedKept(wr) == wr

\* the except branch of get() when the child has exited: clear()
Crashed(wr) == clear(wr)

\* for comparison: an except branch that re-raises queue.Empty without kill()
OnTimeoutNoKill == "empty"

\* the except branch of get() when exitcode is None: the call of kill()
OnTimeout == "kill"

\* for comparison: a polling loop that does not look at the child
SliceGoesOnAlways(t) == TRUE

\* "if not self.process.is_alive(): raise": the loop goes on while the child is
\* alive
SliceGoesOn(t) == is_alive(Proc(t))

\* for comparison: a last wait of the whole result timeout
FinalWaitWhole(t) == IF th[t].remaining = None THEN 0 ELSE cfg.result_timeout

\* the timeout of the last wait, response_queue.get(timeout=remaining_timeout);
\* a wait with no timeout adds nothing to the count
FinalWait(t) == IF th[t].remaining = None THEN 0 ELSE th[t].remaining

\* the time get() has waited after one more wait of d; the count stops one
\* slice above the result timeout
Waited(w, d) ==
    IF w + d > cfg.result_timeout + Slice THEN cfg.result_timeout + Slice ELSE w + d

\* a slice of the polling loop ends with a response: break, return res
GetSliceReply(t) ==
    /\ th[t].pc = "get"
    /\ Polling(t)
    /\ RespQ(t) # <<>>
    /\ respQ' = [respQ EXCEPT ![W(t).response_queue] = Tail(@)]
    /\ th' = [th EXCEPT ![t].pc = "got", ![t].res = Head(RespQ(t)),
                        ![t].remaining = SliceStep(@), ![t].waited = Waited(@, Slice)]
    /\ UNCHANGED <<worker, child, reqQ, environ, processes, executor, work, future,
                   results, cfg, bm, EXIT_HANDLER_REGISTERED, atexit, hist>>

\* for comparison: a test of the exit code that takes 0 for None
exitcode_is_falsy(p) == child[p].exitcode \in {None, ExitReturned}

\* status = self.process.exitcode; "if status is None"
exitcode_is_None(p) == child[p].exitcode = None

\* a slice ends with queue.Empty: the loop goes on while the child is alive; when
\* it is not, Empty is raised and the except branch reads the exit code: the
\* worker is cleared when there is one (a child that is not alive has one)
GetSliceEmpty(t) ==
    /\ th[t].pc = "get"
    /\ Polling(t)
    /\ RespQ(t) = <<>>
    /\ IF SliceGoesOn(t)
       THEN /\ th' = [th EXCEPT ![t].remaining = SliceStep(@), ![t].waited = Waited(@, Slice)]
            /\ UNCHANGED <<worker, child, reqQ, respQ, hist>>
       ELSE IF exitcode_is_None(Proc(t))
       THEN /\ th' = [th EXCEPT ![t].pc = OnTimeout, ![t].remaining = SliceStep(@),
                               ![t].exc = "timeout", ![t].waited = Waited(@, Slice)]
            /\ UNCHANGED <<worker, child, reqQ, respQ, hist>>
       ELSE /\ th' = [th EXCEPT ![t].pc = "empty", ![t].remaining = SliceStep(@),
                               ![t].exc = "crash", ![t].waited = Waited(@, Slice),
                               ![t].status = child[Proc(t)].exitcode]
            /\ worker' = [worker EXCEPT ![th[t].w] = Crashed(@)]
            /\ Collect(Proc(t))
            /\ hist' = [hist EXCEPT !.why[th[t].w] = "crash"]
    /\ UNCHANGED <<environ, processes, executor, work, future, results, cfg, bm,
                   EXIT_HANDLER_REGISTERED, atexit>>

\* the last wait, response_queue.get(timeout=remaining_timeout), gets a response
\* (with no timeout it is the only wait, and it never ends without one)
GetFinalReply(t) ==
    /\ th[t].pc = "get"
    /\ ~Polling(t)
    /\ RespQ(t) # <<>>
    /\ respQ' = [respQ EXCEPT ![W(t).response_queue] = Tail(@)]
    /\ th' = [th EXCEPT ![t].pc = "got", ![t].res = Head(RespQ(t)),
                        ![t].waited = Waited(@, FinalWait(t))]
    /\ UNCHANGED <<worker, child, reqQ, environ, processes, executor, work, future,
                   results, cfg, bm, EXIT_HANDLER_REGISTERED, atexit, hist>>

\* the last wait ends with queue.Empty: kill() when exitcode is None, else clear()
GetFinalEmpty(t) ==
    /\ th[t].pc = "get"
    /\ ~Polling(t)
    /\ th[t].remaining # None
    /\ RespQ(t) = <<>>
    /\ IF exitcode_is_None(Proc(t))
       THEN /\ th' = [th EXCEPT ![t].pc = OnTimeout, ![t].exc = "timeout",
                               ![t].waited = Waited(@, FinalWait(t))]
            /\ UNCHANGED <<worker, child, reqQ, respQ, hist>>
       ELSE /\ th' = [th EXCEPT ![t].pc = "empty", ![t].exc = "crash",
                               ![t].waited = Waited(@, FinalWait(t)),
                               ![t].status = child[Proc(t)].exitcode]
            /\ worker' = [worker EXCEPT ![th[t].w] = Crashed(@)]
            /\ Collect(Proc(t))
            /\ hist' = [hist EXCEPT !.why[th[t].w] = "crash"]
    /\ UNCHANGED <<environ, processes, executor, work, future, results, cfg, bm,
                   EXIT_HANDLER_REGISTERED, atexit>>

\* ------------------------------------------------------ TuningProcess.kill
\* kill() begins: self.process is not None; terminate() puts the sentinel on the
\* request queue of a valid worker; then join(timeout=graceful_timeout)
KillSentinel(t) ==
    /\ th[t].pc = "kill"
    /\ reqQ' = IF valid(W(t)) THEN QueuePut(reqQ, W(t).request_queue, Sentinel) ELSE reqQ
    /\ th' = [th EXCEPT ![t].pc = "join_graceful"]
    /\ hist' = [hist EXCEPT !.klog[t] = <<"sentinel">>]
    /\ UNCHANGED <<worker, child, respQ, environ, processes, executor, work, future,
                   results, cfg, bm, EXIT_HANDLER_REGISTERED, atexit>>

\* for comparison: a kill() that resets the process but keeps the queues
KillClearProcessOnly(wr) == [wr EXCEPT !.process = None]

\* the last statement of kill(): clear()
KillClear(wr) == clear(wr)

\* for comparison: a kill() that goes from the sentinel straight to SIGKILL
SignalAfterGracefulSkipped == "SIGKILL"

\* the signal kill() sends when the child is alive after join(graceful_timeout)
SignalAfterGraceful == "SIGTERM"

\* the signal kill() sends when the child is alive after join(terminate_timeout)
SignalAfterTerminate == "SIGKILL"

\* join(timeout=graceful_timeout) returns because the child has exited (join has
\* reaped it); is_alive() is False and kill() goes to clear()
GracefulExit(t) ==
    /\ th[t].pc = "join_graceful"
    /\ ~is_alive(Proc(t))
    /\ worker' = [worker EXCEPT ![th[t].w] = KillClear(@)]
    /\ Collect(Proc(t))
    /\ th' = [th EXCEPT ![t].pc = "empty"]
    /\ hist' = [hist EXCEPT !.klog[t] = Append(@, "exited"), !.left[t] = "reaped",
                            !.why[th[t].w] = "kill"]
    /\ UNCHANGED <<environ, processes, executor, work, future, results, cfg, bm,
                   EXIT_HANDLER_REGISTERED, atexit>>

\* join(timeout=graceful_timeout) times out, is_alive() is True:
\* self.process.terminate(), then join(timeout=terminate_timeout)
GracefulTimeout(t) ==
    /\ th[t].pc = "join_graceful"
    /\ is_alive(Proc(t))
    /\ child' = [child EXCEPT ![Proc(t)].sig = SignalAfterGraceful]
    /\ th' = [th EXCEPT ![t].pc = "join_terminate"]
    /\ hist' = [hist EXCEPT !.klog[t] = Append(Append(@, "alive"), SignalAfterGraceful)]
    /\ UNCHANGED <<worker, reqQ, respQ, environ, processes, executor, work, future,
                   results, cfg, bm, EXIT_HANDLER_REGISTERED, atexit>>

\* join(timeout=terminate_timeout) returns because the child has exited
TerminateExit(t) ==
    /\ th[t].pc = "join_terminate"
    /\ ~is_alive(Proc(t))
    /\ worker' = [worker EXCEPT ![th[t].w] = KillClear(@)]
    /\ Collect(Proc(t))
    /\ th' = [th EXCEPT ![t].pc = "empty"]
    /\ hist' = [hist EXCEPT !.klog[t] = Append(@, "exited"), !.left[t] = "reaped",
                            !.why[th[t].w] = "kill"]
    /\ UNCHANGED <<environ, processes, executor, work, future, results, cfg, bm,
                   EXIT_HANDLER_REGISTERED, atexit>>

\* BaseProcess.kill(): the signal is sent, and the call returns
process_kill(c) == [c EXCEPT !.sig = SignalAfterTerminate]

\* join(timeout=terminate_timeout) times out, is_alive() is True:
\* self.process.kill(), which sends the signal and returns; then clear().
\* Nothing joins the child after the signal: when kill() returns the child is
\* as the signal finds it, alive until the signal is delivered and not reaped.
TerminateTimeout(t) ==
    /\ th[t].pc = "join_terminate"
    /\ is_alive(Proc(t))
    /\ worker' = [worker EXCEPT ![th[t].w] = KillClear(@)]
    /\ Collect(Proc(t))
    /\ th' = [th EXCEPT ![t].pc = "empty"]
    /\ hist' = [hist EXCEPT !.klog[t] = Append(Append(@, "alive"), SignalAfterTerminate),
                            !.left[t] = process_kill(child[Proc(t)]).status,
                            !.why[th[t].w] = "kill"]
    /\ UNCHANGED <<environ, processes, executor, work, future, results, cfg, bm,
                   EXIT_HANDLER_REGISTERED, atexit>>

\* ------------------------------------------------- TuningProcessPool.target
Initialized == processes # <<None>> /\ executor # None

\* the helper threads of the executor that wait for work are alike: the lowest
\* of them takes the next submitted choice and calls target
IdleHelper(t) == t \in Helpers /\ t <= executor /\ th[t].pc = "idle"

\* choice.bmreq of choice i
bmreq(i) == IF cfg.unknown = i THEN Unknown(i) ELSE Request(i)

TakeWork(t) ==
    /\ executor # None
    /\ IdleHelper(t)
    /\ \A u \in Helpers : IdleHelper(u) => t <= u
    /\ work # <<>>
    /\ work' = Tail(work)
    /\ th' = [th EXCEPT ![t].pc = "acquire", ![t].obj = bmreq(Head(work))]
    /\ UNCHANGED <<worker, child, reqQ, respQ, environ, processes, executor, future,
                   results, cfg, bm, EXIT_HANDLER_REGISTERED, atexit, hist>>

\* for comparison: an idle queue whose get() leaves the head in place
QueueGetPeek(q) == q

\* queue.Queue.get on the idle queue: the head is taken out
QueueGet(q) == Tail(q)

\* process = self.processes.get(): blocks until an idle worker is there
Acquire(t) ==
    /\ th[t].pc = "acquire"
    /\ processes # <<None>>
    /\ processes # <<>>
    /\ processes' = QueueGet(processes)
    /\ th' = [th EXCEPT ![t].pc = "put", ![t].w = Head(processes)]
    /\ UNCHANGED <<worker, child, reqQ, respQ, environ, executor, work, future,
                   results, cfg, bm, EXIT_HANDLER_REGISTERED, atexit, hist>>

\* the finally of target(), self.processes.put(process), after a returned response
FinallyReturn(q, w) == Append(q, w)

\* for comparison: a target() that does not put the worker back after queue.Empty
FinallyEmptyDropped(q, w) == q

\* the finally of target(), self.processes.put(process), after queue.Empty
FinallyEmpty(q, w) == Append(q, w)

\* for comparison: a target() that lets queue.Empty go on to the caller
OnEmptyReraised == Raised

\* what target() returns when get() raised queue.Empty
OnEmpty == Inf

\* for comparison: a target() that drops the response of get()
OnResultIgnored(res) == Inf

\* what target() returns when get() returned res
OnResult(res) == res.val

\* get() returned: target returns the response, the finally puts the worker back
TargetReturn(t) ==
    /\ t \in Helpers
    /\ th[t].pc = "got"
    /\ future' = [future EXCEPT ![th[t].obj.val] = OnResult(th[t].res)]
    /\ processes' = FinallyReturn(processes, th[t].w)
    /\ th' = [th EXCEPT ![t] = IdleThread]
    /\ UNCHANGED <<worker, child, reqQ, respQ, environ, executor, work, results,
                   cfg, bm, EXIT_HANDLER_REGISTERED, atexit, hist>>

\* get() raised queue.Empty: warn, return inf, the finally puts the worker back
TargetExcept(t) ==
    /\ t \in Helpers
    /\ th[t].pc = "empty"
    /\ future' = [future EXCEPT ![th[t].obj.val] = OnEmpty]
    /\ processes' = FinallyEmpty(processes, th[t].w)
    /\ th' = [th EXCEPT ![t] = IdleThread]
    /\ hist' = [hist EXCEPT !.klog[t] = <<>>, !.left[t] = "none"]
    /\ UNCHANGED <<worker, child, reqQ, respQ, environ, executor, work, results,
                   cfg, bm, EXIT_HANDLER_REGISTERED, atexit>>

\* ---------------------------------------------- TuningProcessPool.benchmark
HelpersIdle == \A t \in Helpers : th[t].pc = "idle"

\* benchmark(choices): the choices 1..n are submitted to the executor by
\* executor.map (a new batch starts once the helper threads of an earlier one
\* have ended)
BenchmarkCall ==
    /\ th[0].pc = "idle"
    /\ Initialized
    /\ HelpersIdle
    /\ \E n \in 1 .. MaxItems :
        /\ work' = [i \in 1 .. n |-> i]
        /\ th' = [th EXCEPT ![0].pc = "benchmark", ![0].k = n]
        /\ hist' = [NoHist EXCEPT !.n = n]
    /\ future' = NoFutures
    /\ results' = <<>>
    /\ UNCHANGED <<worker, child, reqQ, respQ, environ, processes, executor, cfg, bm,
                   EXIT_HANDLER_REGISTERED, atexit>>

\* the loop over zip(choices, executor.map(...)) has read every result
BenchmarkReturn ==
    /\ th[0].pc = "benchmark"
    /\ \A i \in 1 .. th[0].k : future[i] \notin {None, Raised}
    /\ results' = [i \in 1 .. th[0].k |-> future[i]]
    /\ th' = [th EXCEPT ![0] = IdleThread]
    /\ UNCHANGED <<worker, child, reqQ, respQ, environ, processes, executor, work,
                   future, cfg, bm, EXIT_HANDLER_REGISTERED, atexit, hist>>

\* the loop reaches a future that holds an exception: benchmark raises it, and
\* the iterator of executor.map cancels the choices not yet started
BenchmarkRaises ==
    /\ th[0].pc = "benchmark"
    /\ \E i \in 1 .. th[0].k :
        /\ future[i] = Raised
        /\ \A j \in 1 .. (i - 1) : future[j] \notin {None, Raised}
    /\ work' = <<>>
    /\ th' = [th EXCEPT ![0] = IdleThread]
    /\ UNCHANGED <<worker, child, reqQ, respQ, environ, processes, executor, future,
                   results, cfg, bm, EXIT_HANDLER_REGISTERED, atexit, hist>>

\* --------------------------------------------- TuningProcessPool.initialize
\* for comparison: a device list that does not look at CUDA_VISIBLE_DEVICES
get_device_list_ignores_env ==
    IF ~cfg.multi THEN <<None>>
    ELSE [i \in 1 .. cfg.count |-> i - 1]

\* get_device_list(): [None] without multi-device mode; the indices listed in
\* CUDA_VISIBLE_DEVICES when it is set; else range(device_count)
get_device_list ==
    IF ~cfg.multi THEN <<None>>
    ELSE IF environ # Absent THEN environ
    ELSE [i \in 1 .. cfg.count |-> i - 1]

\* the assert of get_device_list: len(devices) <= count
DeviceListOk == ~cfg.multi \/ environ = Absent \/ Len(environ) <= cfg.count

\* the assert that opens initialize()
InitAssert == (processes = <<None>>) = (executor = None)

\* for comparison: initialize() without the early return
AlreadyStartedIgnored == FALSE

\* "if self.processes is not None: return"
AlreadyStarted == processes # <<None>>

\* initialize() up to the loop over the devices: the assert, the early return of a
\* started pool, the device list, the new idle queue.  A failed assert leaves
\* everything as it was.  The caller has dropped what benchmark() returned.
PoolInitialize ==
    /\ th[0].pc = "idle"
    /\ HelpersIdle
    /\ IF InitAssert /\ ~AlreadyStarted /\ DeviceListOk
       THEN /\ processes' = <<>>
            /\ th' = [th EXCEPT ![0].pc = "init_loop", ![0].devs = get_device_list,
                                ![0].k = 1]
       ELSE UNCHANGED <<th, processes>>
    /\ future' = NoFutures
    /\ results' = <<>>
    /\ hist' = NoHist
    /\ UNCHANGED <<worker, child, reqQ, respQ, environ, executor, work, cfg, bm,
                   EXIT_HANDLER_REGISTERED, atexit>>

\* one round of "for device in devices": p = TuningProcess(device=device),
\* p.initialize(), p.put(Ping()); after the last round the handshake loop begins
InitLoop ==
    /\ th[0].pc = "init_loop"
    /\ IF th[0].k <= Len(th[0].devs)
       THEN /\ worker' = [worker EXCEPT ![th[0].k] = NewTuningProcess(th[0].devs[th[0].k])]
            /\ child' = Forget(child, th[0].k)
            /\ reqQ' = Drop(reqQ, th[0].k)
            /\ respQ' = Drop(respQ, th[0].k)
            /\ th' = [th EXCEPT ![0].pc = "put", ![0].w = th[0].k, ![0].obj = Ping]
       ELSE /\ th' = [th EXCEPT ![0].pc = "handshake", ![0].k = 1]
            /\ UNCHANGED <<worker, child, reqQ, respQ>>
    /\ UNCHANGED <<environ, processes, executor, work, future, results, cfg, bm,
                   EXIT_HANDLER_REGISTERED, atexit, hist>>

\* for comparison: a handshake that waits for one slice
HandshakeTimeoutSlice == Slice

\* p.get(result_timeout=None)
HandshakeTimeout == None

\* one round of "for p in self.processes.queue": p.get(result_timeout=None)
HandshakeGet ==
    /\ th[0].pc = "handshake"
    /\ th[0].k <= Len(processes)
    /\ th' = [th EXCEPT ![0].pc = "get", ![0].w = processes[th[0].k],
                        ![0].remaining = HandshakeTimeout]
    /\ UNCHANGED <<worker, child, reqQ, respQ, environ, processes, executor, work,
                   future, results, cfg, bm, EXIT_HANDLER_REGISTERED, atexit, hist>>

\* assert isinstance(p.get(result_timeout=None), Pong)
HandshakeGot ==
    /\ th[0].pc = "got"
    /\ IF th[0].res = Pong
       THEN /\ th' = [th EXCEPT ![0].pc = "handshake", ![0].k = @ + 1, ![0].w = 0,
                                ![0].res = NoRes]
            /\ hist' = [hist EXCEPT !.pongs[th[0].w] = @ + 1]
            /\ UNCHANGED future
       ELSE /\ Raise(0)
            /\ UNCHANGED hist
    /\ UNCHANGED <<worker, child, reqQ, respQ, environ, processes, executor, work,
                   results, cfg, bm, EXIT_HANDLER_REGISTERED, atexit>>

\* for comparison: a registration that does not look at the flag
MustRegisterAlways == TRUE

\* if not EXIT_HANDLER_REGISTERED
MustRegister == ~EXIT_HANDLER_REGISTERED

\* for comparison: a thread group of a fixed size
max_workers_one(devs) == 1

\* max_workers=len(devices)
max_workers(devs) == Len(devs)

\* after the handshakes: ThreadPoolExecutor(max_workers=len(devices)), which
\* raises ValueError for max_workers = 0, and the one-time
\* atexit.register(self.terminate)
InitFinish ==
    /\ th[0].pc = "handshake"
    /\ th[0].k > Len(processes)
    /\ IF Len(th[0].devs) = 0
       THEN UNCHANGED <<executor, EXIT_HANDLER_REGISTERED, atexit>>
       ELSE /\ executor' = max_workers(th[0].devs)
            /\ EXIT_HANDLER_REGISTERED' = TRUE
            /\ atexit' = IF MustRegister THEN Append(atexit, "terminate") ELSE atexit
    /\ th' = [th EXCEPT ![0] = IdleThread]
    /\ UNCHANGED <<worker, child, reqQ, respQ, environ, processes, work, results,
                   cfg, bm, future, hist>>

\* ---------------------------------------------- TuningProcessPool.terminate
\* for comparison: a pool terminate() that waits without p.terminate()
TerminateAllSkipped(q, k) == q

\* for comparison: a terminate() that does not look at valid()
TerminateAllUnchecked(q, k) ==
    [p \in Workers |->
        IF \E i \in 1 .. Len(k) : k[i] = p
        THEN Append(q[p], Sentinel) ELSE q[p]]

\* TuningProcess.terminate on every worker of the idle queue: the sentinel goes
\* to the request queue of each valid one
TerminateAll(q, k) ==
    [p \in Workers |->
        IF \E i \in 1 .. Len(k) :
               valid(worker[k[i]]) /\ worker[k[i]].request_queue = p
        THEN Append(q[p], Sentinel) ELSE q[p]]

\* terminate(): executor.shutdown() returns once the helper threads have ended;
\* then "for p in self.processes.queue: p.terminate()"
PoolTerminate ==
    /\ th[0].pc = "idle"
    /\ executor # None => (work = <<>> /\ HelpersIdle)
    /\ executor' = None
    /\ IF processes # <<None>>
       THEN /\ reqQ' = TerminateAll(reqQ, processes)
            /\ th' = [th EXCEPT ![0].pc = "wait", ![0].k = 1]
       ELSE UNCHANGED <<reqQ, th>>
    /\ future' = NoFutures
    /\ results' = <<>>
    /\ hist' = NoHist
    /\ UNCHANGED <<worker, child, respQ, environ, processes, work, cfg, bm,
                   EXIT_HANDLER_REGISTERED, atexit>>

\* one round of "for p in self.processes.queue: p.wait()": join() returns when
\* the child has exited, then clear(); a cleared worker is passed over
PoolWait ==
    /\ th[0].pc = "wait"
    /\ th[0].k <= Len(processes)
    /\ LET w == processes[th[0].k] IN
        IF worker[w].process = None
        THEN UNCHANGED <<worker, child, reqQ, respQ>>
        ELSE /\ ~is_alive(worker[w].process)
             /\ worker' = [worker EXCEPT ![w] = clear(@)]
             /\ Collect(worker[w].process)
    /\ th' = [th EXCEPT ![0].k = @ + 1]
    /\ UNCHANGED <<environ, processes, executor, work, future, results, cfg, bm,
                   EXIT_HANDLER_REGISTERED, atexit, hist>>

\* for comparison: a terminate() that keeps the queue of the workers it waited for
AfterWaitKept(q) == q

\* self.processes = None
AfterWait(q) == <<None>>

\* the loop over the workers has ended: self.processes = None
PoolTerminateEnd ==
    /\ th[0].pc = "wait"
    /\ th[0].k > Len(processes)
    /\ processes' = AfterWait(processes)
    /\ th' = [th EXCEPT ![0] = IdleThread]
    /\ UNCHANGED <<worker, child, reqQ, respQ, environ, executor, work, future,
                   results, cfg, bm, EXIT_HANDLER_REGISTERED, atexit, hist>>

\* ------------------------------------------------------------------- Next
Next ==
    \/ \E p \in Workers :
        \/ workloop(p)
        \/ benchmark_returns(p)
        \/ benchmark_raises(p)
        \/ ChildCrash(p)
        \/ SignalDelivered(p)
    \/ \E t \in Threads :
        \/ PutValid(t)
        \/ PutSpawn(t)
        \/ SetEnv(t)
        \/ StartOk(t)
        \/ StartFail(t)
        \/ ExitCtx(t)
        \/ GetSliceReply(t)
        \/ GetSliceEmpty(t)
        \/ GetFinalReply(t)
        \/ GetFinalEmpty(t)
        \/ KillSentinel(t)
        \/ GracefulExit(t)
        \/ GracefulTimeout(t)
        \/ TerminateExit(t)
        \/ TerminateTimeout(t)
        \/ TakeWork(t)
        \/ Acquire(t)
        \/ TargetReturn(t)
        \/ TargetExcept(t)
    \/ BenchmarkCall
    \/ BenchmarkReturn
    \/ BenchmarkRaises
    \/ PoolInitialize
    \/ InitLoop
    \/ HandshakeGet
    \/ HandshakeGot
    \/ InitFinish
    \/ PoolTerminate
    \/ PoolWait
    \/ PoolTerminateEnd

\* a machine with at most one device
Spec == Init /\ [][Next]_vars

\* a machine with MaxDevices devices, in multi-device mode
SpecMulti == InitMulti /\ [][Next]_vars


\* ------------------------------------------------ BenchmarkRequest.benchmark
\* TensorMeta.name: None, or one of the buffer names of the graph
Names == {1, 2}

\* the lists input_tensor_meta may be, as the list of the names of its entries
MetaLists == UNION {[1 .. n -> Names \cup {None}] : n \in 0 .. MaxMeta}

\* x.to_tensor() for the entry at position i: a new buffer each time, known
\* by the entry it was made from
to_tensor(i) == [made_from |-> i]

\* for comparison: a test that takes None for a name like the others
IsRepeatedUnguarded(name, seen_names) == name \in seen_names

\* "if tensor_meta.name is not None: if tensor_meta.name in seen_names: continue"
IsRepeated(name, seen_names) == name # None /\ name \in seen_names

\* the loop over zip(input_tensors, self.input_tensor_meta), from entry i on,
\* with seen_names and unique_input_tensors as they are before entry i
RECURSIVE UniqueLoop(_, _, _, _)
UniqueLoop(meta, i, seen_names, unique_input_tensors) ==
    IF i > Len(meta) THEN unique_input_tensors
    ELSE IF IsRepeated(meta[i], seen_names)
    THEN UniqueLoop(meta, i + 1, seen_names, unique_input_tensors)
    ELSE UniqueLoop(meta, i + 1, seen_names \cup {meta[i]},
                    Append(unique_input_tensors, to_tensor(i)))

\* (input_tensors, unique_input_tensors, output_tensor)
create_argument_tensors_from_metadata(meta) ==
    <<[i \in 1 .. Len(meta) |-> to_tensor(i)],
      UniqueLoop(meta, 1, {}, <<>>),
      to_tensor(Len(meta) + 1)>>

\* for comparison: a benchmark() that takes the first list of the tuple
TakenFromTupleFirst(made) == made[1]

\* "_, input_tensors, output_tensor = self.create_argument_tensors_from_metadata()"
TakenFromTuple(made) == made[2]

\* for comparison: a list of the named entries only
KeptNamedOnly(name, seen) == name # None /\ name \notin seen

\* "if tm.name is None: append; elif tm.name not in seen: append"
Kept(name, seen) == name = None \/ name \notin seen

\* the loop of _create_unique_tensor_meta, from entry i on; an entry of the
\* list is known by its position
RECURSIVE UniqueMetaLoop(_, _, _, _)
UniqueMetaLoop(meta, i, seen, unique_input_tensor_meta) ==
    IF i > Len(meta) THEN unique_input_tensor_meta
    ELSE IF Kept(meta[i], seen)
    THEN UniqueMetaLoop(meta, i + 1,
                        IF meta[i] = None THEN seen ELSE seen \cup {meta[i]},
                        Append(unique_input_tensor_meta, i))
    ELSE UniqueMetaLoop(meta, i + 1, seen, unique_input_tensor_meta)

\* CUDABenchmarkRequest._create_unique_tensor_meta
create_unique_tensor_meta(input_tensor_meta) ==
    UniqueMetaLoop(input_tensor_meta, 1, {}, <<>>)

\* self.DLL is None
NoDLL == "None"

\* CUDACodeCache.load: a DLLWrapper of the loaded library
load == "open"

\* DLLWrapper.close
close(DLL) == "closed"

\* CUDABenchmarkRequest.ensure_dll_loaded: "if self.DLL is None"
ensure_dll_loaded(b) ==
    IF b.DLL = NoDLL THEN [b EXCEPT !.DLL = load] ELSE b

\* CUDABenchmarkRequest.update_workspace_size: once per request, the kernel is
\* taken from self.DLL (getattr) and called to learn the size of the workspace
update_workspace_size(b) ==
    IF b.workspace_size_updated THEN b
    ELSE LET l == ensure_dll_loaded(b) IN
         [l EXCEPT !.used = @ \cup {l.DLL}, !.workspace_size_updated = TRUE]

\* c_void_p(tensor.data_ptr())
c_void_p(tensor) == [ptr_of |-> tensor]

\* CUDABenchmarkRequest.make_run_fn up to its assert: the DLL, the size of the
\* workspace, and args, the pointers of the input tensors and the output tensor
make_run_fn(b, input_tensors, output_tensor) ==
    LET u == update_workspace_size(ensure_dll_loaded(b))
        all == Append(input_tensors, output_tensor)
    IN  [u EXCEPT !.ptrs = [k \in 1 .. Len(all) |-> c_void_p(all[k])]]

\* assert len(args) == len(self.unique_input_tensor_meta) + 1
ArgsAssert(b) == Len(b.ptrs) = Len(b.unique_input_tensor_meta) + 1

\* CUDABenchmarkRequest.cleanup_run_fn
cleanup_run_fn(b) ==
    IF b.DLL # NoDLL THEN [b EXCEPT !.DLL = close(b.DLL)] ELSE b

\* benchmark() called with no tensors, as workloop calls it: the buffers are
\* made from the metadata
benchmark_creates ==
    /\ bm.pc = "called"
    /\ LET made == create_argument_tensors_from_metadata(bm.input_tensor_meta) IN
        bm' = [bm EXCEPT !.pc = "created",
                         !.input_tensors = TakenFromTuple(made),
                         !.output_tensor = made[3]]
    /\ UNCHANGED <<worker, child, reqQ, respQ, environ, processes, executor, work,
                   future, results, th, cfg, EXIT_HANDLER_REGISTERED, atexit, hist>>

\* fn = self.make_run_fn(*input_tensors, output_tensor=output_tensor), which
\* raises when its assert fails and else takes run_method from self.DLL
\* (getattr); do_bench(fn) calls it
benchmark_runs ==
    /\ bm.pc = "created"
    /\ LET m == make_run_fn(bm, bm.input_tensors, bm.output_tensor) IN
        bm' = IF ArgsAssert(m)
              THEN [m EXCEPT !.pc = "timed", !.args = bm.input_tensors,
                             !.used = @ \cup {m.DLL}]
              ELSE [m EXCEPT !.pc = "raised", !.args = bm.input_tensors]
    /\ UNCHANGED <<worker, child, reqQ, respQ, environ, processes, executor, work,
                   future, results, th, cfg, EXIT_HANDLER_REGISTERED, atexit, hist>>

\* self.cleanup_run_fn(); return out
benchmark_cleans ==
    /\ bm.pc = "timed"
    /\ bm' = [cleanup_run_fn(bm) EXCEPT !.pc = "returned"]
    /\ UNCHANGED <<worker, child, reqQ, respQ, environ, processes, executor, work,
                   future, results, th, cfg, EXIT_HANDLER_REGISTERED, atexit, hist>>

\* benchmark() is called on the same request once more, with no tensors
benchmark_again ==
    /\ bm.pc = "returned"
    /\ bm.calls < MaxCalls
    /\ bm' = [bm EXCEPT !.pc = "called", !.calls = @ + 1, !.input_tensors = <<>>,
                        !.output_tensor = None, !.args = <<>>, !.ptrs = <<>>]
    /\ UNCHANGED <<worker, child, reqQ, respQ, environ, processes, executor, work,
                   future, results, th, cfg, EXIT_HANDLER_REGISTERED, atexit, hist>>

\* a request as its constructor leaves it, with any list of metadata, at the
\* first call of its benchmark(); the pool is not started
InitRequest ==
    /\ InitWith({0})
    /\ ~cfg.multi
    /\ cfg.result_timeout = 3
    /\ cfg.unknown = 0
    /\ environ = Absent
    /\ \E meta \in MetaLists :
        bm = [NoRequest EXCEPT !.pc = "called", !.input_tensor_meta = meta,
                  !.unique_input_tensor_meta = create_unique_tensor_meta(meta),
                  !.calls = 1]

NextRequest ==
    \/ benchmark_creates
    \/ benchmark_runs
    \/ benchmark_cleans
    \/ benchmark_again

\* the calls of benchmark() on one CUDABenchmarkRequest
SpecRequest == InitRequest /\ [][NextRequest]_vars


\* the steps of get() and kill() a thread of the parent takes by itself: a
\* queue.get(timeout) or a join(timeout) returns when its time is up
ParentStep(t) ==
    \/ GetSliceReply(t)
    \/ GetSliceEmpty(t)
    \/ GetFinalReply(t)
    \/ GetFinalEmpty(t)
    \/ KillSentinel(t)
    \/ GracefulExit(t)
    \/ GracefulTimeout(t)
    \/ TerminateExit(t)
    \/ TerminateTimeout(t)

\* as Spec, and time passes for every helper thread inside get() and kill();
\* nothing is assumed of the child processes
FairSpec == Spec /\ \A t \in Helpers : WF_vars(ParentStep(t))

\* ------------------------------------------------------------- properties
Count(q, w) == Cardinality({i \in DOMAIN q : q[i] = w})

\* a dispatch of thread t ends in this step, after a response or after queue.Empty
DispatchEnds(t) == th[t].pc \in {"got", "empty"} /\ th'[t].pc = "idle"

\* requests of worker p that are queued, being run, or answered and not yet read
InFlight(p) ==
    Cardinality({i \in DOMAIN reqQ[p] : reqQ[p][i].type = "BenchmarkRequest"})
    + (IF child[p].busy # 0 THEN 1 ELSE 0)
    + Cardinality({i \in DOMAIN respQ[p] : respQ[p][i].type = "float"})

IsPrefix(s, r) == Len(s) <= Len(r) /\ SubSeq(r, 1, Len(s)) = s

\* the orders in which kill() may act on the child
KillOrders ==
    {<<"sentinel", "exited">>,
     <<"sentinel", "alive", "SIGTERM", "exited">>,
     <<"sentinel", "alive", "SIGTERM", "alive", "SIGKILL">>}

InGetOrKill(t) == th[t].pc \in {"get", "kill", "join_graceful", "join_terminate"}

\* C1: a dispatch takes one worker out of the idle queue and, when it ends after a
\* response, a timeout or a crash, puts that same worker back exactly once; while
\* the dispatch holds the worker the queue does not get it.  The idle queue is
\* as long after the call as before it.
C1_ReturnedExactlyOnce ==
    [][\A t \in Helpers :
        /\ (th[t].pc = "acquire" /\ th'[t].pc = "put")
            => /\ th'[t].w = Head(processes)
               /\ Len(processes') = Len(processes) - 1
        /\ DispatchEnds(t)
            => /\ Count(processes', th[t].w) = Count(processes, th[t].w) + 1
               /\ Len(processes') = Len(processes) + 1
        /\ (th[t].w # 0 /\ th'[t].w = th[t].w)
            => Count(processes', th[t].w) = Count(processes, th[t].w)]_vars

\* two choices are done, one after queue.Empty, and every worker is idle again
C1_Witness ==
    /\ Initialized
    /\ HelpersIdle
    /\ th[0].pc = "benchmark"
    /\ future[1] = Inf
    /\ future[2] = Value(2)
    /\ Len(processes) = executor

\* C2: a worker is held by at most one helper thread, a held worker is not in
\* the idle queue, and a worker has at most one benchmark request in flight.
C2_OneHolderOneRequest ==
    /\ \A t \in Helpers : \A u \in Helpers :
        (t # u /\ th[t].w # 0) => th[u].w # th[t].w
    /\ \A t \in Helpers : th[t].w # 0 => Count(processes, th[t].w) = 0
    /\ \A p \in Workers : InFlight(p) <= 1

\* two helper threads wait in get(), each for its own busy child
C2_Witness ==
    \E t \in Helpers : \E u \in Helpers :
        /\ t # u
        /\ th[t].pc = "get" /\ th[u].pc = "get"
        /\ child[th[t].w].busy # 0 /\ child[th[u].w].busy # 0

\* C3: what benchmark() returns has exactly one entry per submitted choice: the
\* measured value of the choice when its response came while get() waited for it,
\* and +inf when it did not.
C3_OneEntryPerItem ==
    results # <<>> =>
        /\ DOMAIN results = 1 .. hist.n
        /\ \A i \in DOMAIN results :
            results[i] = IF i \in hist.replied THEN Value(i) ELSE Inf

\* a batch of two with one child that never answered
C3_Witness ==
    /\ Len(results) = 2
    /\ results[1] = Inf
    /\ results[2] = Value(2)
    /\ hist.replied = {2}

\* C4: a timeout or a crash is not raised: the dispatch that met it ends with
\* +inf in the future of its choice and leaves the choices not yet started in
\* the work queue; a future gets an exception only from a dispatch that is not
\* in, or past, get().
C4_NeverRaised ==
    [][/\ \A t \in Helpers :
            (th[t].exc # "none" /\ th'[t].pc = "idle")
                => /\ future'[th[t].obj.val] = Inf
                   /\ work' = work
                   /\ th'[0].pc = th[0].pc
       /\ \A i \in Items :
            (future'[i] = Raised /\ future[i] # Raised)
                => \A t \in Helpers :
                     th[t].obj = bmreq(i)
                        => th[t].exc = "none" /\ ~InGetOrKill(t)
                           /\ th[t].pc # "empty"]_vars

\* the first choice has failed, and the batch goes on with the second
C4_Witness ==
    /\ th[0].pc = "benchmark"
    /\ future[1] = Inf
    /\ \E t \in Helpers : th[t].obj = Request(2) /\ th[t].pc = "get"

\* C5: the failure of one choice does not reach another: a thread in get() finds
\* on the response queue nothing but the response to its own request, what get()
\* returns is the value of the thread's own choice, and a choice whose response
\* came in time has its own value whatever became of the others.
C5_FailureContained ==
    /\ \A t \in Helpers :
        /\ th[t].pc = "get"
            => \A k \in DOMAIN RespQ(t) : RespQ(t)[k] = Float(Value(th[t].obj.val))
        /\ th[t].pc = "got" => th[t].res = Float(Value(th[t].obj.val))
    /\ \A i \in Items :
        /\ future[i] \notin {None, Raised, Inf} => future[i] = Value(i)
        /\ (i \in hist.replied /\ future[i] # None) => future[i] = Value(i)

\* on a pool of one worker the first choice has failed, the worker was cleared,
\* and the second choice has got its own value from the child put() has spawned
C5_Witness ==
    /\ executor = 1
    /\ future[1] = Inf
    /\ \E t \in Helpers :
        /\ th[t].pc = "got"
        /\ th[t].obj = Request(2)
        /\ th[t].res = Float(Value(2))
        /\ hist.why[th[t].w] \in {"none", "respawned"}
        /\ child[th[t].w].status = "alive"

\* C6: when the child has died with the request outstanding, the step get()
\* takes next fails as a crash and leaves the worker uninitialized; the put()
\* that follows on this worker makes new queues and a new child, and the object
\* is the one thing on the request queue of that child once start() has
\* returned.
C6_CrashResetsAndRespawns ==
    [][\A t \in Helpers :
        /\ (th[t].pc = "get" /\ RespQ(t) = <<>> /\ ~is_alive(Proc(t))
                /\ th'[t] # th[t])
            => /\ th'[t].pc = "empty"
               /\ th'[t].exc = "crash"
               /\ worker'[th[t].w] = NewTuningProcess(W(t).device)
        /\ (th[t].pc = "put" /\ hist.why[th[t].w] = "crash" /\ th'[t] # th[t])
            => /\ ~valid(W(t))
               /\ valid(worker'[th[t].w])
               /\ child'[th[t].w].status = "unstarted"
               /\ reqQ'[th[t].w] = <<>>
               /\ respQ'[th[t].w] = <<>>
        /\ (th[t].pc = "exitctx" /\ th'[t].pc = "get")
            => /\ th[t].started
               /\ child'[th[t].w].status # "unstarted"
               /\ reqQ'[th[t].w] = <<th[t].obj>>]_vars

\* after a crash the next choice is with the new child of the same worker
C6_Witness ==
    \E t \in Helpers :
        /\ th[t].pc = "get"
        /\ hist.why[th[t].w] = "respawned"
        /\ is_alive(Proc(t))
        /\ reqQ[th[t].w] = <<th[t].obj>>

\* C7: kill() acts in the order sentinel, then SIGTERM when the child is alive
\* after the graceful wait, then SIGKILL when it is alive after the terminate
\* wait; once the child is found exited nothing more is sent, and no child has
\* a signal pending that this order did not send.
C7_EscalationOrder ==
    /\ \A t \in Threads :
        /\ \E r \in KillOrders : IsPrefix(hist.klog[t], r)
        /\ th[t].pc = "join_graceful"
            => hist.klog[t] = <<"sentinel">> /\ child[Proc(t)].sig = "none"
        /\ th[t].pc = "join_terminate"
            => /\ hist.klog[t] = <<"sentinel", "alive", "SIGTERM">>
               /\ child[Proc(t)].sig = "SIGTERM"
    /\ \A p \in Workers :
        child[p].sig # "none"
            => \E t \in Threads : th[t].w = p /\ th[t].pc = "join_terminate"

\* a kill() that went all the way
C7_Witness ==
    \E t \in Helpers :
        hist.klog[t] = <<"sentinel", "alive", "SIGTERM", "alive", "SIGKILL">>

\* C8: when kill() has returned, the child is not alive and has been reaped.
C8_ChildGoneAtReturn ==
    \A t \in Threads : hist.left[t] \in {"none", "reaped"}

\* C9: when kill() has returned, the process and both queues of the worker are
\* None, whichever step ended the child.
C9_KillLeavesCleared ==
    \A t \in Threads :
        hist.left[t] # "none"
            => /\ th[t].pc = "empty"
               /\ W(t) = NewTuningProcess(W(t).device)
               /\ ~valid(W(t))

\* kill() has returned after the child left on the sentinel
C9_Witness ==
    \E t \in Helpers :
        /\ th[t].pc = "empty"
        /\ th[t].exc = "timeout"
        /\ hist.klog[t] = <<"sentinel", "exited">>
        /\ W(t).request_queue = None

\* C10: a helper thread that is in get() with the configured result timeout, or
\* in the kill() it calls, comes to the return or the raise of get().
C10_GetAndKillEnd ==
    \A t \in Helpers :
        InGetOrKill(t) ~> (th[t].pc \in {"got", "empty"})

\* get() has polled in slices, and its kill() has returned from a child that
\* took neither the sentinel nor SIGTERM
C10_Witness ==
    \E t \in Helpers :
        /\ cfg.result_timeout >= SliceFloor
        /\ th[t].pc = "empty"
        /\ Len(hist.klog[t]) = 5

\* thread t is between the entry of initialize() and the end of its with block
InInitialize(t) == th[t].pc \in {"setenv", "start", "exitctx"}

\* C11: when the with block of initialize() ends, after start() has returned or
\* has raised, CUDA_VISIBLE_DEVICES has the value the call found, which is the
\* value the process began with, and is absent if it was absent; the spawn of a
\* worker with no device does not write the variable.
C11_EnvRestored ==
    [][\A t \in Threads :
        /\ (th[t].pc = "exitctx" /\ th'[t].pc # "exitctx" /\ W(t).device # None)
            => /\ environ' = th[t].current
               /\ environ' = cfg.env
        /\ (th[t].w # 0 /\ W(t).device = None /\ th'[t] # th[t])
            => environ' = environ]_vars

\* a worker with a device, the variable absent at the start: start() has raised,
\* and the variable is absent again
C11_Witness ==
    /\ cfg.multi
    /\ cfg.env = Absent
    /\ environ = Absent
    /\ \E i \in Items : future[i] = Raised
    /\ \A t \in Threads : ~InInitialize(t)

\* C12: a child that was started for a worker with device d has found
\* CUDA_VISIBLE_DEVICES equal to d alone.
C12_ChildSeesOwnDevice ==
    \A p \in Workers :
        (child[p].status \in {"alive", "exited"} /\ worker[p].device # None)
            => child[p].env = <<worker[p].device>>

\* pool initialize() returns, or raises after the handshakes, in this step
InitializeEnds == th[0].pc = "handshake" /\ th'[0].pc = "idle"

\* what pool initialize() has done for a device list of N entries: N workers in
\* the idle queue, each with one Ping put and its one Pong got, and a thread
\* group of N
InitializedFor(N) ==
    /\ Len(processes') = N
    /\ \A i \in 1 .. N : \A j \in 1 .. N : i # j => processes'[i] # processes'[j]
    /\ \A i \in 1 .. N :
        /\ hist.pings[processes'[i]] = 1
        /\ hist.pongs[processes'[i]] = 1
        /\ reqQ[processes'[i]] = <<>>
        /\ respQ[processes'[i]] = <<>>
    /\ \A w \in Workers :
        (\A i \in 1 .. N : processes'[i] # w)
            => hist.pings[w] = 0 /\ hist.pongs[w] = 0
    /\ executor' = N

pool == <<worker, child, reqQ, respQ, environ, processes, executor, work, th,
          EXIT_HANDLER_REGISTERED, atexit>>

\* C14: pool terminate() on a pool that is not initialized, be it never
\* initialized or just terminated, returns at once and changes nothing; a
\* terminate() that has waited for the workers leaves the pool not initialized;
\* and no worker of the idle queue holds a process that was never started, on
\* which join() would raise.
C14_TerminateRepeatable ==
    /\ [](processes # <<None>> =>
            \A i \in 1 .. Len(processes) :
                worker[processes[i]].process # None
                    => child[worker[processes[i]].process].status # "unstarted")
    /\ [][/\ (PoolTerminate /\ processes = <<None>> /\ executor = None)
                => UNCHANGED pool
          /\ PoolTerminateEnd
                => /\ processes' = <<None>>
                   /\ executor' = None
                   /\ th'[0].pc = "idle"]_vars

\* a pool that was started and has been terminated: the next terminate() is a
\* second call in a row
C14_Witness ==
    /\ EXIT_HANDLER_REGISTERED
    /\ processes = <<None>>
    /\ executor = None
    /\ th[0].pc = "idle"
    /\ \A w \in Workers : ~valid(worker[w])

\* the workers of the idle queue
Circulating == {processes[i] : i \in 1 .. Len(processes)}

\* C15: pool terminate() goes on to the workers only when the thread group has
\* been shut down (no choice is waiting, no helper thread is in a dispatch); it
\* puts the sentinel on the request queue of every valid worker of the idle
\* queue; and when it returns every worker of the idle queue is cleared, its
\* child has exited and was joined, and the pool has no idle queue and no
\* thread group.
C15_TerminateStopsAll ==
    [][/\ (PoolTerminate /\ executor # None) => (work = <<>> /\ HelpersIdle)
       /\ (PoolTerminate /\ processes # <<None>>)
            => /\ executor' = None
               /\ \A w \in Circulating :
                    valid(worker[w])
                        => reqQ'[worker[w].request_queue]
                             = Append(reqQ[worker[w].request_queue], Sentinel)
       /\ PoolTerminateEnd
            => /\ \A w \in Circulating :
                    /\ ~valid(worker[w])
                    /\ child[w] = NoChild
                    /\ reqQ[w] = <<>>
               /\ processes' = <<None>>
               /\ executor' = None
       /\ (PoolWait /\ worker[processes[th[0].k]].process # None)
            => child[worker[processes[th[0].k]].process].status = "exited"]_vars

\* terminate() of a started pool of MaxDevices workers has waited for each of
\* them: each has exited on the sentinel and is cleared
C15_Witness ==
    /\ th[0].pc = "wait"
    /\ Len(processes) = MaxDevices
    /\ th[0].k > MaxDevices
    /\ \A w \in Workers : ~valid(worker[w])
    /\ EXIT_HANDLER_REGISTERED
    /\ executor = None

\* C16: atexit.register(self.terminate) is called at most once however often the
\* pool is initialized and terminated; it has been called exactly when the flag
\* is set; and whenever initialize() has returned and the pool is started, the
\* callback is registered.
C16_ExitHookOnce ==
    /\ Len(atexit) <= 1
    /\ EXIT_HANDLER_REGISTERED = (atexit = <<"terminate">>)
    /\ executor # None => atexit = <<"terminate">>

\* the pool was initialized and terminated, and a second initialize() has got
\* every Pong: the flag is set, the thread group is about to be made
C16_Witness ==
    /\ th[0].pc = "handshake"
    /\ th[0].k > Len(processes)
    /\ Len(processes) >= 1
    /\ executor = None
    /\ EXIT_HANDLER_REGISTERED
    /\ atexit = <<"terminate">>

InKill(t) == th[t].pc \in {"kill", "join_graceful", "join_terminate"}

\* C18: when the last wait of get() ends with nothing on the response queue and
\* the child alive, get() goes into kill(); get() raises for the timeout only
\* when kill() has run to its end (the child was found exited, or SIGKILL was
\* sent) and the worker is cleared, so that the child's request queue is
\* dropped; from the timeout on nothing is put on that queue but the sentinel.
C18_TimeoutKillsFirst ==
    /\ [](\A t \in Helpers :
            /\ (th[t].pc = "empty" /\ th[t].exc = "timeout")
                => /\ hist.klog[t] \in KillOrders
                   /\ ~valid(W(t))
                   /\ child[th[t].w] = NoChild
                   /\ reqQ[th[t].w] = <<>>
            /\ th[t].exc = "timeout" => (InKill(t) \/ th[t].pc = "empty"))
    /\ [][\A t \in Helpers :
            /\ (th[t].pc = "get" /\ ~Polling(t) /\ RespQ(t) = <<>>
                    /\ is_alive(Proc(t)) /\ th'[t] # th[t])
                => (th'[t].pc = "kill" /\ th'[t].exc = "timeout")
            /\ (th[t].exc = "timeout" /\ InKill(t))
                => \A k \in DOMAIN reqQ'[th[t].w] :
                     \/ k \in DOMAIN reqQ[th[t].w]
                     \/ reqQ'[th[t].w][k] = Sentinel]_vars

\* get() without a polling loop has timed out on a child that was alive, and
\* kill() has returned after SIGTERM ended the child
C18_Witness ==
    \E t \in Helpers :
        /\ cfg.result_timeout < SliceFloor
        /\ th[t].pc = "empty"
        /\ th[t].exc = "timeout"
        /\ hist.klog[t] = <<"sentinel", "alive", "SIGTERM", "exited">>

\* C19: initialize() on a pool that is started (idle queue and thread group both
\* set) returns at once: no worker is made or spawned, nothing is put on a queue
\* and no Ping is counted, and the idle queue, the thread group and the exit
\* hook are as they were.
C19_InitializeIdempotent ==
    [][(PoolInitialize /\ Initialized)
        => /\ UNCHANGED pool
           /\ hist'.pings = [w \in Workers |-> 0]]_vars

\* initialize() was called on a started pool after a batch that left a worker
\* cleared: the worker is still cleared and in the idle queue, no Ping was sent
C19_Witness ==
    /\ th[0].pc = "idle"
    /\ Initialized
    /\ hist = NoHist
    /\ Len(processes) = executor
    /\ \E w \in Circulating : ~valid(worker[w])

\* the devices of the workers of the idle queue, in the order of the queue
DevicesOf(q) == [i \in 1 .. Len(q) |-> worker[q[i]].device]

Holds(t) == th[t].w # 0

\* C21: a helper thread that waits in self.processes.get() can still get a
\* worker: one is in the idle queue, or some thread holds one it will put back.
\* (No step puts a worker into the idle queue but the finally of target() and
\* the loop of pool initialize(), each for the worker its thread holds.)
C21_AcquireCanEnd ==
    \A t \in Helpers :
        th[t].pc = "acquire"
            => (processes # <<>> \/ \E u \in Threads : Holds(u))

\* the two states of a worker
UNINITIALIZED(wr) == wr = NewTuningProcess(wr.device)
RUNNING(wr) == valid(wr)

\* thread t is at the return of the kill() it runs on its worker
KillReturns(t) ==
    th[t].pc \in {"join_graceful", "join_terminate"} /\ th'[t].pc = "empty"

C23_DeathFoundAtSliceEnd ==
    [][\A t \in Helpers :
        /\ (th[t].pc = "get" /\ Polling(t) /\ RespQ(t) = <<>> /\ th'[t] # th[t])
            => /\ th'[t].waited = th[t].waited + Slice
               /\ IF is_alive(Proc(t))
                  THEN th'[t].pc = "get" /\ th'[t].exc = "none"
                  ELSE /\ th'[t].pc = "empty"
                       /\ th'[t].exc = "crash"
                       /\ th'[t].waited < cfg.result_timeout
        /\ (th[t].pc = "get" /\ ~Polling(t) /\ th'[t].exc = "crash")
            => th'[t].waited = cfg.result_timeout]_vars

\* C23 as stated: a get() with a finite result timeout that fails because the
\* child has died fails before the whole result timeout has been waited for.
C23_AsStated ==
    \A t \in Helpers :
        th[t].exc = "crash" => th[t].waited < cfg.result_timeout

\* get() has failed as a crash at the end of its first slice, with 1.2 s of a
\* result timeout of 1.7 s not waited for
C23_Witness ==
    \E t \in Helpers :
        /\ th[t].pc = "empty"
        /\ th[t].exc = "crash"
        /\ th[t].waited = Slice
        /\ cfg.result_timeout - th[t].waited >= Slice

\* C24: the initialize() that put() calls on a valid worker returns at once:
\* the step leaves every worker, every child and every response queue as they
\* are and adds the object to the request queue the worker has; and a child is
\* made for a worker only when the worker refers to none.
C24_InitializeOnValid ==
    [][/\ \A t \in Threads :
            (th[t].pc = "put" /\ valid(W(t)) /\ th'[t] # th[t])
                => /\ worker' = worker
                   /\ child' = child
                   /\ respQ' = respQ
                   /\ reqQ' = [reqQ EXCEPT ![W(t).request_queue] = Append(@, th[t].obj)]
                   /\ th'[t].pc \notin {"setenv", "start"}
       /\ \A p \in Workers :
            (child'[p].status = "unstarted" /\ child[p] # child'[p])
                => /\ child[p] = NoChild
                   /\ ~valid(worker[p])]_vars

\* on a pool of one worker the first choice has got its value, and the second
\* is on the request queue of the same child, put there without a spawn
C24_Witness ==
    /\ executor = 1
    /\ future[1] = Value(1)
    /\ \E t \in Helpers :
        /\ th[t].pc = "get"
        /\ th[t].obj = Request(2)
        /\ valid(W(t))
        /\ is_alive(Proc(t))
        /\ reqQ[th[t].w] = <<Request(2)>>
        /\ th[t].waited = 0

\* a step of the child of worker p alone: no thread of the parent moves and no
\* worker is changed
ChildStep == th' = th /\ worker' = worker

\* C25: the child reads the request queue only while it is alive and not in a
\* benchmark, and takes the head; for a Ping it appends one Pong to the
\* response queue in the same step, for a BenchmarkRequest it runs that
\* benchmark and appends nothing yet, for the sentinel it appends nothing and
\* exits.  The only other write of the child is the value of the benchmark it
\* runs, once, when the benchmark returns.  A child that has exited reads and
\* writes nothing.
C25_WorkloopInOrder ==
    [][\A p \in Workers :
        /\ (ChildStep /\ reqQ'[p] # reqQ[p])
            => /\ child[p].status = "alive"
               /\ child[p].busy = 0
               /\ reqQ[p] # <<>>
               /\ reqQ'[p] = Tail(reqQ[p])
               /\ LET obj == Head(reqQ[p]) IN
                    /\ obj = Ping
                        => /\ respQ'[p] = Append(respQ[p], Pong)
                           /\ child'[p] = child[p]
                    /\ obj.type = "BenchmarkRequest"
                        => /\ respQ'[p] = respQ[p]
                           /\ child'[p] = [child[p] EXCEPT !.busy = obj.val]
                    /\ obj = Sentinel
                        => /\ respQ'[p] = respQ[p]
                           /\ child'[p].status = "exited"
        /\ (ChildStep /\ respQ'[p] # respQ[p] /\ reqQ'[p] = reqQ[p])
            => /\ child[p].status = "alive"
               /\ child[p].busy # 0
               /\ respQ'[p] = Append(respQ[p], Float(Value(child[p].busy)))
               /\ child'[p].busy = 0
        /\ (ChildStep /\ child[p].status = "exited")
            => /\ reqQ'[p] = reqQ[p]
               /\ respQ'[p] = respQ[p]
               /\ child'[p] = child[p]]_vars

\* kill() waits for a child that has answered the request it was late for and
\* then has read the sentinel: the request queue is empty, the child has
\* exited, and the one reply is the value of the request
C25_Witness ==
    \E t \in Helpers :
        /\ th[t].pc = "join_graceful"
        /\ child[th[t].w].status = "exited"
        /\ reqQ[th[t].w] = <<>>
        /\ respQ[th[t].w] = <<Float(Value(th[t].obj.val))>>

\* the object is none of the three kinds workloop knows
Unrecognized(obj) == obj.type \notin {"None", "Ping", "BenchmarkRequest"}

\* C26: a child that reads an object of an unknown kind, or whose benchmark
\* ends without a value, puts nothing on the response queue and exits; and a
\* get() of target() whose wait ends with queue.Empty on a child that has
\* exited, with whatever exit code, fails as a crash and leaves the worker
\* cleared, without kill().
C26_ChildErrorIsCrash ==
    [][/\ \A p \in Workers :
            /\ (ChildStep /\ reqQ'[p] # reqQ[p] /\ Unrecognized(Head(reqQ[p])))
                => /\ respQ'[p] = respQ[p]
                   /\ child'[p].status = "exited"
                   /\ child'[p].exitcode # None
            /\ (ChildStep /\ child[p].busy # 0 /\ child'[p].busy = 0
                    /\ respQ'[p] = respQ[p])
                => /\ child'[p].status = "exited"
                   /\ child'[p].exitcode # None
       /\ \A t \in Helpers :
            (th[t].pc = "get" /\ RespQ(t) = <<>> /\ child[Proc(t)].status = "exited"
                    /\ th'[t] # th[t])
                => /\ child[Proc(t)].exitcode \in {ExitReturned, ExitSignalled}
                   /\ th'[t].status = child[Proc(t)].exitcode
                   /\ th'[t].pc = "empty"
                   /\ th'[t].exc = "crash"
                   /\ hist'.klog[t] = <<>>
                   /\ UNINITIALIZED(worker'[th[t].w])
                   /\ child'[th[t].w] = NoChild]_vars

\* the choice whose bmreq is of an unknown kind has failed as a crash: the
\* child had returned from process_main with exit code 0, the worker is cleared
C26_Witness ==
    \E t \in Helpers :
        /\ th[t].obj = Unknown(cfg.unknown)
        /\ th[t].pc = "empty"
        /\ th[t].exc = "crash"
        /\ th[t].status = ExitReturned
        /\ ~valid(W(t))

\* the get() of the handshake waits for a child that has exited and has left
\* nothing on the response queue
HandshakeBlocked ==
    /\ th[0].pc = "get"
    /\ child[Proc(0)].status = "exited"
    /\ RespQ(0) = <<>>

\* C27: the get() that pool initialize() calls has no result timeout and does
\* not poll; it ends only by taking a response from the queue, it is never in
\* kill(), it never fails and it changes no worker.  When the child has exited
\* with nothing on the response queue, the wait goes on for ever: pool
\* initialize() stays in this get(), and the pool stays without executor.
C27_HandshakeWaitsForEver ==
    /\ [](/\ th[0].pc = "get" => (th[0].remaining = None /\ ~Polling(0))
          /\ ~InKill(0)
          /\ th[0].pc # "empty"
          /\ th[0].exc = "none")
    /\ [][/\ (th[0].pc = "get" /\ th'[0] # th[0])
                => /\ RespQ(0) # <<>>
                   /\ th'[0].pc = "got"
                   /\ th'[0].res = Head(RespQ(0))
                   /\ worker' = worker
                   /\ child' = child
          /\ HandshakeBlocked
                => /\ HandshakeBlocked'
                   /\ th'[0] = th[0]
                   /\ executor' = None
                   /\ worker'[th[0].w] = worker[th[0].w]]_vars

\* the child of the first worker has died before it read the Ping, and pool
\* initialize() waits for its Pong
C27_Witness ==
    /\ HandshakeBlocked
    /\ th[0].k = 1
    /\ reqQ[th[0].w] = <<Ping>>
    /\ valid(W(0))

\* what terminate() on worker p makes of the request queues
AfterTerminate(p) ==
    IF valid(worker[p]) THEN Append(reqQ[p], Sentinel) ELSE reqQ[p]

\* C28: terminate() on a worker, called by pool terminate() for every worker of
\* the idle queue and by kill() for its own, puts the sentinel on the request
\* queue of a valid worker and nothing on that of a worker that is not valid;
\* the step does not depend on the child and changes no child, no worker and
\* no response queue.
C28_TerminateOnlySignals ==
    [][/\ (th[0].pc = "idle" /\ th'[0].pc = "wait")
            => /\ worker' = worker
               /\ child' = child
               /\ respQ' = respQ
               /\ \A p \in Workers :
                    reqQ'[p] = IF \E i \in 1 .. Len(processes) : processes[i] = p
                               THEN AfterTerminate(p) ELSE reqQ[p]
       /\ \A t \in Threads :
            (th[t].pc = "kill" /\ th'[t].pc = "join_graceful")
                => /\ worker' = worker
                   /\ child' = child
                   /\ respQ' = respQ
                   /\ \A p \in Workers :
                        reqQ'[p] = IF p = th[t].w THEN AfterTerminate(p) ELSE reqQ[p]]_vars

\* pool terminate() has called terminate() on a worker that get() had cleared:
\* nothing was put on a queue, and the wait loop has yet to begin
C28_Witness ==
    /\ th[0].pc = "wait"
    /\ th[0].k = 1
    /\ Len(processes) >= 1
    /\ \A i \in 1 .. Len(processes) :
        /\ ~valid(worker[processes[i]])
        /\ reqQ[processes[i]] = <<>>

\* entry i of the list is unnamed, or is the first entry with its name
FirstOfItsName(meta, i) ==
    meta[i] = None \/ \A j \in 1 .. (i - 1) : meta[j] # meta[i]

\* C29: the input buffers benchmark() hands to make_run_fn, when it makes them
\* itself, are those of the entries of input_tensor_meta that are unnamed or
\* the first with their name, in the order of the list: every unnamed entry
\* and every name has exactly one buffer among them.
C29_UniqueBuffers ==
    bm.pc \in {"timed", "raised"} =>
        LET meta == bm.input_tensor_meta
            from == [k \in 1 .. Len(bm.args) |-> bm.args[k].made_from]
        IN  /\ \A k \in 1 .. Len(from) :
                /\ from[k] \in 1 .. Len(meta)
                /\ FirstOfItsName(meta, from[k])
            /\ \A k \in 1 .. (Len(from) - 1) : from[k] < from[k + 1]
            /\ \A i \in 1 .. Len(meta) :
                FirstOfItsName(meta, i) => \E k \in 1 .. Len(from) : from[k] = i
            /\ \A k \in 1 .. Len(from) : \A l \in 1 .. Len(from) :
                (k # l /\ meta[from[k]] # None) => meta[from[k]] # meta[from[l]]

\* a list of four entries: a name, an unnamed entry, the name again, another
\* unnamed entry; the buffers of entries 1, 2 and 4 are handed on
C29_Witness ==
    /\ bm.pc = "timed"
    /\ bm.input_tensor_meta = <<1, None, 1, None>>
    /\ bm.args = <<to_tensor(1), to_tensor(2), to_tensor(4)>>

\* nothing of an earlier exchange is left with worker w: both queues are empty
\* and the child is not in a benchmark
Clean(w) == reqQ[w] = <<>> /\ respQ[w] = <<>> /\ child[w].busy = 0

\* worker w is in the idle queue
IsIdle(w) ==
    processes # <<None>> /\ \E i \in 1 .. Len(processes) : processes[i] = w

\* C30: in a started pool a worker that is in the idle queue, or that target()
\* has just taken from it, has empty queues and a child that is not in a
\* benchmark, so the response get() takes is one made after the put() of the
\* same target(); what get() returns to target() is the value of the request
\* that target() has put, and what it returns to pool initialize() is a Pong.
\* A put() on a worker that was cleared begins with two new, empty queues.
C30_ReplyIsForRequest ==
    /\ [](/\ executor # None
            => \A w \in Workers :
                 (IsIdle(w) \/ \E t \in Helpers : th[t].w = w /\ th[t].pc = "put")
                    => Clean(w)
          /\ \A t \in Helpers :
                th[t].pc = "got" => th[t].res = Float(Value(th[t].obj.val))
          /\ th[0].pc = "got" => th[0].res = Pong)
    /\ [][\A t \in Helpers :
            (th[t].pc = "put" /\ ~valid(W(t)) /\ th'[t] # th[t])
                => /\ valid(worker'[th[t].w])
                   /\ reqQ'[th[t].w] = <<>>
                   /\ respQ'[th[t].w] = <<>>
                   /\ child'[th[t].w].busy = 0]_vars

\* on a pool of one worker the first choice has timed out and its child was
\* killed; the second choice has got its own value from the new child
C30_Witness ==
    /\ executor = 1
    /\ future[1] = Inf
    /\ \E t \in Helpers :
        /\ th[t].pc = "got"
        /\ th[t].obj = Request(2)
        /\ th[t].res = Float(Value(2))
        /\ hist.why[th[t].w] = "none"
        /\ hist.replied = {2}

\* the helper threads that hold worker w
Holders(w) == {t \in Helpers : th[t].w = w}

\* C31: in a started pool (initialize() has returned, terminate() has not begun)
\* each of the max_workers workers is in the idle queue once and held by no
\* thread, or held by one helper thread and not in the idle queue.
C31_NoWorkerLost ==
    (Initialized /\ th[0].pc \in {"idle", "benchmark"})
        => \A w \in 1 .. executor :
               Count(processes, w) + Cardinality(Holders(w)) = 1

\* C32: put() sends the item to a worker it finds valid only when the child of
\* the worker is alive (a worker whose child has died is respawned first).
C32_PutReachesLiveChild ==
    [][\A t \in Helpers : PutValid(t) => is_alive(Proc(t))]_vars

\* C33: whenever pool initialize() can be called (the caller is in no other call
\* of the pool), its opening assert holds: the idle queue and the thread group
\* are both there or both None.
C33_InitAssertHolds ==
    (th[0].pc = "idle" /\ HelpersIdle) => InitAssert

\* C34: when no thread is inside the with block of an initialize(),
\* CUDA_VISIBLE_DEVICES has the value the process began with, or is absent as it
\* was then.
C34_EnvRestoredAfterAll ==
    (\A t \in Threads : ~InInitialize(t)) => environ = cfg.env

\* as Spec, and the loop of pool terminate() goes on when the join() it is in can
\* return, and a child that is alive and waits in request_queue.get() takes the
\* object that is there; nothing is assumed of a child inside a benchmark
FairTerminateSpec ==
    /\ Spec
    /\ WF_vars(PoolWait)
    /\ WF_vars(PoolTerminateEnd)
    /\ \A p \in Workers : WF_vars(workloop(p))

\* C35: pool terminate(), once the thread group is shut down and the sentinels
\* are sent, comes to its end: the pool has no idle queue and no thread group.
C35_TerminateCompletes ==
    (th[0].pc = "wait")
        ~> (th[0].pc = "idle" /\ processes = <<None>> /\ executor = None)

\* terminate() is about to wait for a worker whose child has taken the
\* sentinel from the request queue and has returned from process_main
C35_Witness ==
    /\ th[0].pc = "wait"
    /\ th[0].k <= Len(processes)
    /\ LET wr == worker[processes[th[0].k]] IN
        /\ valid(wr)
        /\ reqQ[wr.request_queue] = <<>>
        /\ child[wr.process].status = "exited"
        /\ child[wr.process].exitcode = ExitReturned

\* the devices of the workers of a started pool
InCirculation == {worker[w].device : w \in 1 .. executor}

C37_WaitsSumToTimeout ==
    /\ [](\A t \in Helpers :
            /\ th[t].pc = "get" => th[t].waited + th[t].remaining = cfg.result_timeout
            /\ th[t].waited <= cfg.result_timeout)
    /\ [][\A t \in Helpers :
            /\ (th[t].pc = "get" /\ th'[t].waited # th[t].waited /\ Polling(t))
                => /\ th'[t].waited = th[t].waited + Slice
                   /\ th[t].remaining >= SliceFloor
            /\ (th[t].pc = "get" /\ th'[t].waited # th[t].waited /\ ~Polling(t))
                => /\ th'[t].waited = th[t].waited + th[t].remaining
                   /\ th[t].remaining < SliceFloor
            /\ (th[t].exc = "none" /\ th'[t].exc = "timeout")
                => /\ ~Polling(t)
                   /\ is_alive(Proc(t))
                   /\ th'[t].waited = cfg.result_timeout]_vars

\* get() has declared a timeout after two slices and a last wait of 0.7 s, which
\* add up to the result timeout of 1.7 s
C37_Witness ==
    \E t \in Helpers :
        /\ th[t].exc = "timeout"
        /\ th[t].remaining = cfg.result_timeout - 2 * Slice
        /\ th[t].remaining > 0
        /\ th[t].waited = cfg.result_timeout

\* C38: for every list of metadata, benchmark() that makes its own buffers has
\* as many input buffers as unique_input_tensor_meta has entries, and the
\* assert of make_run_fn on len(args) holds: make_run_fn does not raise.
C38_ArgCountMatches ==
    /\ bm.pc # "raised"
    /\ bm.pc = "created"
        => Len(bm.input_tensors) = Len(bm.unique_input_tensor_meta)
    /\ bm.pc = "timed"
        => Len(bm.ptrs) = Len(bm.unique_input_tensor_meta) + 1

\* a list with a repeated name and an unnamed entry: three buffers for four
\* entries, and make_run_fn has passed its assert with four pointers
C38_Witness ==
    /\ bm.pc = "timed"
    /\ bm.input_tensor_meta = <<1, 1, None, 2>>
    /\ bm.unique_input_tensor_meta = <<1, 3, 4>>
    /\ Len(bm.input_tensors) = 3
    /\ Len(bm.ptrs) = 4

\* C39: benchmark() never takes the kernel from a DLL that cleanup_run_fn() has
\* closed: a call of benchmark() after cleanup_run_fn() loads the DLL again
\* before it uses it.
C39_NoUseAfterClose == "closed" \notin bm.used

====
